---- MODULE Spec2Model ----
(***************************************************************************)
(* State-machine model of the SIPUPUK backend (FastAPI route handlers over *)
(* one relational schema).  The variables are the database tables, the     *)
(* last HTTP response, and the request-local state of the sessions that    *)
(* are in flight.  Every action is one HTTP request, translated from the   *)
(* handler's code, the authentication dependency included.  For each       *)
(* handler H, H_status is the HTTP status the request is answered with in  *)
(* the current state.  A request that is rejected with a 4xx status before *)
(* it has written anything leaves every table as it was: it is a           *)
(* stuttering step.  resp records the last request that committed or that  *)
(* ended in a server error.                                                *)
(***************************************************************************)
EXTENDS Integers, Sequences, FiniteSets, TLC

(* ---------------- bounds of the model ---------------- *)
MaxStok == 3        \* tambah_stock_pupuk is not explored beyond this stock level
MaxJumlah == 2      \* request quantities range over 0..MaxJumlah
MaxRiwayat == 1     \* riwayat_stock_pupuk rows explored
MaxPermohonan == 1  \* pengajuan_pupuk rows explored
MaxPupuk == 2       \* stok_pupuk rows explored
MaxUser == 5        \* users ids explored by the account handlers
MaxLogout == 1      \* logged-out tokens remembered

(* ---------------- optional (nullable) values ---------------- *)
None == << >>
Some(v) == << v >>

Max(a, b) == IF a >= b THEN a ELSE b

MaxOf(S) == CHOOSE x \in S : \A y \in S : y <= x

VARIABLES
    users,                      \* users: id -> [username, role]
    profile_petani,             \* profile_petani: user_id -> [nik]
    profile_lain,               \* profile_admin/_distributor/_superadmin rows: set of [user_id, tabel]
    stok_pupuk,                 \* stok_pupuk: id -> [nama_pupuk, jumlah_stok, satuan]
    pengajuan_pupuk,            \* pengajuan_pupuk: id -> [petani_id, pupuk_id, jumlah_diminta, jumlah_disetujui, status, jadwal_event_id]
    jadwal_distribusi_pupuk,    \* jadwal_distribusi_pupuk: id -> [permohonan_id, status]
    riwayat_stock_pupuk,        \* riwayat_stock_pupuk: sequence of [pupuk_id, tipe, jumlah]
    verifikasi_penerima_pupuk,  \* verifikasi_penerima_pupuk: set of [permohonan_id, distributor_id]
    resp,                       \* the last request and its HTTP response
    logged_out,                 \* history: tokens for which POST /auth/logout returned 200
    sess                        \* requests in flight in their own session: session -> local state

db == << users, profile_petani, profile_lain, stok_pupuk, pengajuan_pupuk,
         jadwal_distribusi_pupuk, riwayat_stock_pupuk, verifikasi_penerima_pupuk >>

vars == << users, profile_petani, profile_lain, stok_pupuk, pengajuan_pupuk,
           jadwal_distribusi_pupuk, riwayat_stock_pupuk, verifikasi_penerima_pupuk,
           resp, logged_out, sess >>

(* ---------------- schema (db/models.py) ---------------- *)
\* the columns of pengajuan_pupuk
PengajuanColumns == {"id", "petani_id", "pupuk_id", "jumlah_diminta", "jumlah_disetujui",
                     "status", "alasan", "url_dokumen_pendukung", "created_at", "jadwal_event_id"}

\* rows of jadwal_distribusi_event (seeded; no modelled handler writes them)
jadwal_distribusi_event == {1}

\* an INTEGER PRIMARY KEY of a new row: one more than the largest id in the table
NextId(table) == IF DOMAIN table = {} THEN 1 ELSE MaxOf(DOMAIN table) + 1

(* ---------------- bearer tokens (core/security.py, core/dependencies.py) ---------------- *)
NoToken == [kind |-> "none", sub |-> 0, expired |-> FALSE]
GarbageToken == [kind |-> "garbage", sub |-> 0, expired |-> FALSE]
Jwt(uid, exp) == [kind |-> "jwt", sub |-> uid, expired |-> exp]

\* create_access_token(data={"sub": str(user.id)}): a signed token naming the user
create_access_token(uid) == Jwt(uid, FALSE)

\* jwt.decode: raises JWTError for an undecodable or expired token
jwt_decode_ok(tok) == tok.kind = "jwt" /\ ~tok.expired

\* a require_role that forgets to compare the user's role
require_role_any_role(roles, tok) ==
    IF tok.kind = "none" THEN [status |-> 401, id |-> 0]
    ELSE IF tok.kind # "jwt" \/ tok.expired THEN [status |-> 401, id |-> 0]
    ELSE IF tok.sub = 0 THEN [status |-> 401, id |-> 0]
    ELSE IF tok.sub \notin DOMAIN users THEN [status |-> 401, id |-> 0]
    ELSE [status |-> 200, id |-> tok.sub]

\* require_role(*roles).checker: the status it answers and the user it returns
require_role(roles, tok) ==
    IF tok.kind = "none" THEN [status |-> 401, id |-> 0]
    ELSE IF ~jwt_decode_ok(tok) THEN [status |-> 401, id |-> 0]
    ELSE IF tok.sub = 0 THEN [status |-> 401, id |-> 0]
    ELSE IF tok.sub \notin DOMAIN users THEN [status |-> 401, id |-> 0]
    ELSE IF users[tok.sub].role \notin roles THEN [status |-> 403, id |-> 0]
    ELSE [status |-> 200, id |-> tok.sub]

\* get_current_user: as require_role without the role check
get_current_user(tok) ==
    IF tok.kind = "none" THEN [status |-> 401, id |-> 0]
    ELSE IF ~jwt_decode_ok(tok) THEN [status |-> 401, id |-> 0]
    ELSE IF tok.sub = 0 THEN [status |-> 401, id |-> 0]
    ELSE IF tok.sub \notin DOMAIN users THEN [status |-> 401, id |-> 0]
    ELSE [status |-> 200, id |-> tok.sub]

(* ---------------- responses ---------------- *)
\* the request was answered `status`; logged_out and sess are not touched by a handler
Reply(op, status) ==
    /\ resp' = [op |-> op, status |-> status]
    /\ UNCHANGED << logged_out, sess >>

\* the tables no stock or workflow handler writes
AccountsUnchanged == UNCHANGED << users, profile_petani, profile_lain >>

(* ---------------- stock handlers (api/routes/admin.py) ---------------- *)
Satuan == {"kg", "ton"}

\* POST /admin/pupuk_list
create_stok_pupuk_status(tok, nama, jumlah, satuan) ==
    LET auth == require_role({"admin"}, tok)
    IN  IF auth.status # 200 THEN auth.status
        ELSE IF \E p \in DOMAIN stok_pupuk : stok_pupuk[p].nama_pupuk = nama THEN 400
        ELSE 200

create_stok_pupuk(tok, nama, jumlah, satuan) ==
    LET new_id == NextId(stok_pupuk)
    IN  /\ create_stok_pupuk_status(tok, nama, jumlah, satuan) = 200
        /\ new_id <= MaxPupuk
        /\ stok_pupuk' = [p \in DOMAIN stok_pupuk \cup {new_id} |->
                            IF p = new_id
                            THEN [nama_pupuk |-> nama, jumlah_stok |-> jumlah, satuan |-> satuan]
                            ELSE stok_pupuk[p]]
        /\ Reply("create_stok_pupuk", 200)
        /\ AccountsUnchanged
        /\ UNCHANGED << pengajuan_pupuk, jadwal_distribusi_pupuk, riwayat_stock_pupuk,
                        verifikasi_penerima_pupuk >>

\* PUT /admin/pupuk_list/{pupuk_id}; nama_pupuk and satuan are left out of the request,
\* jumlah_stok is None or Some(n)
update_stok_pupuk_status(tok, pupuk_id, jumlah_stok) ==
    LET auth == require_role({"admin"}, tok)
    IN  IF auth.status # 200 THEN auth.status
        ELSE IF pupuk_id \notin DOMAIN stok_pupuk THEN 404
        ELSE 200

update_stok_pupuk(tok, pupuk_id, jumlah_stok) ==
    /\ update_stok_pupuk_status(tok, pupuk_id, jumlah_stok) = 200
    /\ stok_pupuk' = IF jumlah_stok = None THEN stok_pupuk
                     ELSE [stok_pupuk EXCEPT ![pupuk_id].jumlah_stok = jumlah_stok[1]]
    /\ Reply("update_stok_pupuk", 200)
    /\ AccountsUnchanged
    /\ UNCHANGED << pengajuan_pupuk, jadwal_distribusi_pupuk, riwayat_stock_pupuk,
                    verifikasi_penerima_pupuk >>

\* POST /admin/tambah_stock_pupuk
tambah_stock_pupuk_status(tok, pupuk_id, jumlah, satuan) ==
    LET auth == require_role({"admin"}, tok)
    IN  IF auth.status # 200 THEN auth.status
        ELSE IF jumlah <= 0 THEN 400
        ELSE IF pupuk_id \notin DOMAIN stok_pupuk THEN 404
        ELSE IF stok_pupuk[pupuk_id].satuan # "" /\ stok_pupuk[pupuk_id].satuan # satuan THEN 400
        ELSE 200

\* a tambah_stock_pupuk whose UPDATE has no WHERE clause: every row's stock is raised
tambah_write_all_rows(pupuk_id, jumlah) ==
    /\ stok_pupuk' = [p \in DOMAIN stok_pupuk |->
                        [stok_pupuk[p] EXCEPT !.jumlah_stok = @ + jumlah]]
    /\ riwayat_stock_pupuk' = Append(riwayat_stock_pupuk,
                                     [pupuk_id |-> pupuk_id, tipe |-> "tambah", jumlah |-> jumlah])

\* tambah_stock_pupuk, the UPDATE and the INSERT
tambah_write(pupuk_id, jumlah) ==
    /\ stok_pupuk' = [stok_pupuk EXCEPT ![pupuk_id].jumlah_stok = @ + jumlah]
    /\ riwayat_stock_pupuk' = Append(riwayat_stock_pupuk,
                                     [pupuk_id |-> pupuk_id, tipe |-> "tambah", jumlah |-> jumlah])

tambah_stock_pupuk(tok, pupuk_id, jumlah, satuan) ==
    /\ tambah_stock_pupuk_status(tok, pupuk_id, jumlah, satuan) = 200
    /\ stok_pupuk[pupuk_id].jumlah_stok + jumlah <= MaxStok
    /\ Len(riwayat_stock_pupuk) < MaxRiwayat
    /\ tambah_write(pupuk_id, jumlah)
    /\ Reply("tambah_stock_pupuk", 200)
    /\ AccountsUnchanged
    /\ UNCHANGED << pengajuan_pupuk, jadwal_distribusi_pupuk, verifikasi_penerima_pupuk >>

\* kurangi_stock_pupuk, the SELECT: the row as the session sees it (None: no such row)
kurangi_select(pupuk_id) ==
    IF pupuk_id \in DOMAIN stok_pupuk THEN Some(stok_pupuk[pupuk_id]) ELSE None

\* a kurangi_stock_pupuk that does not compare jumlah with the stock it read
kurangi_check_any_jumlah(row, jumlah, satuan) ==
    IF row = None THEN 404
    ELSE IF row[1].satuan # "" /\ row[1].satuan # satuan THEN 400
    ELSE 200

\* kurangi_stock_pupuk, the checks made on the row that was read
kurangi_check(row, jumlah, satuan) ==
    IF row = None THEN 404
    ELSE IF row[1].satuan # "" /\ row[1].satuan # satuan THEN 400
    ELSE IF row[1].jumlah_stok < jumlah THEN 400
    ELSE 200

\* a kurangi_stock_pupuk whose UPDATE is conditional (... WHERE jumlah_stok >= jumlah):
\* it writes nothing when the stored stock no longer suffices
kurangi_write_if_enough(pupuk_id, jumlah) ==
    IF stok_pupuk[pupuk_id].jumlah_stok >= jumlah
    THEN /\ stok_pupuk' = [stok_pupuk EXCEPT ![pupuk_id].jumlah_stok = @ - jumlah]
         /\ riwayat_stock_pupuk' = Append(riwayat_stock_pupuk,
                                          [pupuk_id |-> pupuk_id, tipe |-> "kurangi", jumlah |-> jumlah])
    ELSE UNCHANGED << stok_pupuk, riwayat_stock_pupuk >>

\* kurangi_stock_pupuk, the UPDATE (relative to the stored value) and the INSERT
kurangi_write(pupuk_id, jumlah) ==
    /\ stok_pupuk' = [stok_pupuk EXCEPT ![pupuk_id].jumlah_stok = @ - jumlah]
    /\ riwayat_stock_pupuk' = Append(riwayat_stock_pupuk,
                                     [pupuk_id |-> pupuk_id, tipe |-> "kurangi", jumlah |-> jumlah])

\* POST /admin/kurangi_stock_pupuk, the whole request with no other session in between
kurangi_stock_pupuk_status(tok, pupuk_id, jumlah, satuan) ==
    LET auth == require_role({"admin"}, tok)
    IN  IF auth.status # 200 THEN auth.status
        ELSE IF jumlah <= 0 THEN 400
        ELSE kurangi_check(kurangi_select(pupuk_id), jumlah, satuan)

kurangi_stock_pupuk(tok, pupuk_id, jumlah, satuan) ==
    /\ kurangi_stock_pupuk_status(tok, pupuk_id, jumlah, satuan) = 200
    /\ Len(riwayat_stock_pupuk) < MaxRiwayat
    /\ kurangi_write(pupuk_id, jumlah)
    /\ Reply("kurangi_stock_pupuk", 200)
    /\ AccountsUnchanged
    /\ UNCHANGED << pengajuan_pupuk, jadwal_distribusi_pupuk, verifikasi_penerima_pupuk >>

\* kurangi_stock_pupuk in a session of its own, first half: the dependency and the
\* jumlah check pass, the session is opened and the SELECT is run
kurangi_begin(s, tok, pupuk_id, jumlah, satuan) ==
    /\ sess[s].pc = "idle"
    /\ require_role({"admin"}, tok).status = 200
    /\ jumlah > 0
    /\ sess' = [sess EXCEPT ![s] = [pc |-> "read", op |-> "kurangi_stock_pupuk",
                                    pupuk_id |-> pupuk_id, jumlah |-> jumlah,
                                    satuan |-> satuan, row |-> kurangi_select(pupuk_id),
                                    permohonan_id |-> 0, jadwal |-> FALSE, jadwal_id |-> 0,
                                    status |-> 0]]
    /\ UNCHANGED << db, resp, logged_out >>

\* second half: the checks on the row that was read, then UPDATE, INSERT and commit
kurangi_finish(s) ==
    LET st == kurangi_check(sess[s].row, sess[s].jumlah, sess[s].satuan)
    IN  /\ sess[s].pc = "read"
        /\ sess' = [sess EXCEPT ![s].pc = "done", ![s].status = st]
        /\ IF st = 200
           THEN /\ kurangi_write(sess[s].pupuk_id, sess[s].jumlah)
                /\ resp' = [op |-> "kurangi_stock_pupuk", status |-> 200]
           ELSE UNCHANGED << stok_pupuk, riwayat_stock_pupuk, resp >>
        /\ AccountsUnchanged
        /\ UNCHANGED << pengajuan_pupuk, jadwal_distribusi_pupuk, verifikasi_penerima_pupuk,
                        logged_out >>

(* ---------------- the permohonan workflow ---------------- *)
\* POST /petani/pengajuan_pupuk (api/routes/petani.py); no supporting document is uploaded
ajukan_permohonan_status(tok, jenis_pupuk, jumlah_kg) ==
    LET auth == require_role({"petani"}, tok)
    IN  IF auth.status # 200 THEN auth.status
        ELSE IF jumlah_kg <= 0 THEN 400
        ELSE IF auth.id \notin DOMAIN profile_petani THEN 400
        ELSE IF ~\E p \in DOMAIN stok_pupuk : stok_pupuk[p].nama_pupuk = jenis_pupuk THEN 404
        ELSE 200

ajukan_permohonan(tok, jenis_pupuk, jumlah_kg) ==
    LET new_id == NextId(pengajuan_pupuk)
        pupuk == CHOOSE p \in DOMAIN stok_pupuk : stok_pupuk[p].nama_pupuk = jenis_pupuk
    IN  /\ ajukan_permohonan_status(tok, jenis_pupuk, jumlah_kg) = 200
        /\ new_id <= MaxPermohonan
        /\ pengajuan_pupuk' =
             [i \in DOMAIN pengajuan_pupuk \cup {new_id} |->
                IF i = new_id
                THEN [petani_id |-> tok.sub, pupuk_id |-> pupuk,
                      jumlah_diminta |-> jumlah_kg, jumlah_disetujui |-> None,
                      status |-> "pending", jadwal_event_id |-> None]
                ELSE pengajuan_pupuk[i]]
        /\ Reply("ajukan_permohonan", 200)
        /\ AccountsUnchanged
        /\ UNCHANGED << stok_pupuk, jadwal_distribusi_pupuk, riwayat_stock_pupuk,
                        verifikasi_penerima_pupuk >>

\* an approve_persetujuan_pupuk that ignores the substitute pupuk_id of the request
approve_target_own_pupuk(permohonan_id, pupuk_id) ==
    pengajuan_pupuk[permohonan_id].pupuk_id

\* approve_persetujuan_pupuk: the pupuk the approval is checked against and written with
approve_target_pupuk_id(permohonan_id, pupuk_id) ==
    IF pupuk_id # 0 /\ pupuk_id # pengajuan_pupuk[permohonan_id].pupuk_id
    THEN pupuk_id
    ELSE pengajuan_pupuk[permohonan_id].pupuk_id

\* approve_persetujuan_pupuk: the status an approval writes
approve_status_target(jadwal, jadwal_id) ==
    IF jadwal \/ jadwal_id # 0 THEN "dijadwalkan" ELSE "terverifikasi"

\* an approve_persetujuan_pupuk that does not look at the status of the permohonan
approve_any_status(tok, permohonan_id, jumlah_disetujui, pupuk_id, jadwal, jadwal_id) ==
    LET auth == require_role({"admin"}, tok)
        target == IF pupuk_id # 0 /\ pupuk_id # pengajuan_pupuk[permohonan_id].pupuk_id
                  THEN pupuk_id
                  ELSE pengajuan_pupuk[permohonan_id].pupuk_id
    IN  IF auth.status # 200 THEN auth.status
        ELSE IF jumlah_disetujui <= 0 THEN 400
        ELSE IF \/ permohonan_id \notin DOMAIN pengajuan_pupuk
                \/ pengajuan_pupuk[permohonan_id].pupuk_id \notin DOMAIN stok_pupuk THEN 404
        ELSE IF target \notin DOMAIN stok_pupuk THEN 400
        ELSE IF jumlah_disetujui > stok_pupuk[target].jumlah_stok THEN 400
        ELSE IF jadwal_id # 0 /\ jadwal_id \notin jadwal_distribusi_event THEN 400
        ELSE 200

\* POST /admin/persetujuan_pupuk/{permohonan_id}/approve (api/routes/admin.py).
\* The permohonan is read joined with the stok_pupuk row of its pupuk_id.
\* jumlah_disetujui, pupuk_id, jadwal_id: 0 stands for a missing (None) field, which the
\* code tests by truthiness; jadwal: tanggal_pengiriman and lokasi are both given
approve_persetujuan_pupuk_status(tok, permohonan_id, jumlah_disetujui, pupuk_id, jadwal, jadwal_id) ==
    LET auth == require_role({"admin"}, tok)
        target == approve_target_pupuk_id(permohonan_id, pupuk_id)
    IN  IF auth.status # 200 THEN auth.status
        ELSE IF jumlah_disetujui <= 0 THEN 400
        ELSE IF \/ permohonan_id \notin DOMAIN pengajuan_pupuk
                \/ pengajuan_pupuk[permohonan_id].pupuk_id \notin DOMAIN stok_pupuk THEN 404
        ELSE IF pengajuan_pupuk[permohonan_id].status # "pending" THEN 400
        ELSE IF target \notin DOMAIN stok_pupuk THEN 400
        ELSE IF jumlah_disetujui > stok_pupuk[target].jumlah_stok THEN 400
        ELSE IF jadwal_id # 0 /\ jadwal_id \notin jadwal_distribusi_event THEN 400
        ELSE 200

approve_persetujuan_pupuk(tok, permohonan_id, jumlah_disetujui, pupuk_id, jadwal, jadwal_id) ==
    LET new_jadwal == NextId(jadwal_distribusi_pupuk)
    IN  /\ approve_persetujuan_pupuk_status(tok, permohonan_id, jumlah_disetujui, pupuk_id,
                                            jadwal, jadwal_id) = 200
        /\ pengajuan_pupuk' =
             [pengajuan_pupuk EXCEPT ![permohonan_id] =
                [@ EXCEPT !.jumlah_disetujui = Some(jumlah_disetujui),
                          !.pupuk_id = approve_target_pupuk_id(permohonan_id, pupuk_id),
                          !.status = approve_status_target(jadwal, jadwal_id),
                          !.jadwal_event_id = IF jadwal_id # 0 THEN Some(jadwal_id) ELSE @]]
        /\ jadwal_distribusi_pupuk' =
             IF jadwal
             THEN [j \in DOMAIN jadwal_distribusi_pupuk \cup {new_jadwal} |->
                     IF j = new_jadwal
                     THEN [permohonan_id |-> permohonan_id, status |-> "dijadwalkan"]
                     ELSE jadwal_distribusi_pupuk[j]]
             ELSE jadwal_distribusi_pupuk
        /\ Reply("approve_persetujuan_pupuk", 200)
        /\ AccountsUnchanged
        /\ UNCHANGED << stok_pupuk, riwayat_stock_pupuk, verifikasi_penerima_pupuk >>

\* reject_persetujuan_pupuk: the columns its UPDATE pengajuan_pupuk statement sets
reject_update_columns == {"status", "alasan_pengajuan"}

\* POST /admin/persetujuan_pupuk/{permohonan_id}/reject; alasan: a non-empty reason is given.
\* An UPDATE that names a column the table lacks raises in cur.execute: get_cursor rolls
\* back and the request is answered 500
reject_persetujuan_pupuk_status(tok, permohonan_id, alasan) ==
    LET auth == require_role({"admin"}, tok)
    IN  IF auth.status # 200 THEN auth.status
        ELSE IF ~alasan THEN 400
        ELSE IF permohonan_id \notin DOMAIN pengajuan_pupuk THEN 404
        ELSE IF pengajuan_pupuk[permohonan_id].status # "pending" THEN 400
        ELSE IF ~(reject_update_columns \subseteq PengajuanColumns) THEN 500
        ELSE 200

reject_persetujuan_pupuk(tok, permohonan_id, alasan) ==
    LET st == reject_persetujuan_pupuk_status(tok, permohonan_id, alasan)
    IN  /\ st \in {200, 500}
        /\ pengajuan_pupuk' = IF st = 200
                              THEN [pengajuan_pupuk EXCEPT ![permohonan_id].status = "ditolak"]
                              ELSE pengajuan_pupuk
        /\ Reply("reject_persetujuan_pupuk", st)
        /\ AccountsUnchanged
        /\ UNCHANGED << stok_pupuk, jadwal_distribusi_pupuk, riwayat_stock_pupuk,
                        verifikasi_penerima_pupuk >>

(* ---------------- approve and reject, each in a session of its own ---------------- *)
\* a get_cursor that keeps the writes made before the exception
get_cursor_no_rollback(before, written, raised) == written

\* get_cursor(commit=True) (db/db_base.py): what a table holds after the with block:
\* the writes of the block after db.commit() when the block ended normally, the table as
\* it was after db.rollback() when the block raised
get_cursor(before, written, raised) == IF raised THEN before ELSE written

\* approve_persetujuan_pupuk, first half: the dependency and the jumlah_disetujui check
\* pass, the session is opened, the SELECTs are run and the checks made on what they
\* returned; the target pupuk is computed from the row that was read
approve_begin(s, tok, permohonan_id, jumlah_disetujui, pupuk_id, jadwal, jadwal_id) ==
    LET st == approve_persetujuan_pupuk_status(tok, permohonan_id, jumlah_disetujui, pupuk_id,
                                               jadwal, jadwal_id)
    IN  /\ sess[s].pc = "idle"
        /\ require_role({"admin"}, tok).status = 200
        /\ jumlah_disetujui > 0
        /\ sess' = [sess EXCEPT ![s] =
                      [pc |-> "read", op |-> "approve_persetujuan_pupuk",
                       pupuk_id |-> IF st = 200
                                    THEN approve_target_pupuk_id(permohonan_id, pupuk_id)
                                    ELSE 0,
                       jumlah |-> jumlah_disetujui, satuan |-> "",
                       row |-> IF permohonan_id \in DOMAIN pengajuan_pupuk
                               THEN Some(pengajuan_pupuk[permohonan_id]) ELSE None,
                       permohonan_id |-> permohonan_id, jadwal |-> jadwal,
                       jadwal_id |-> jadwal_id, status |-> st]]
        /\ UNCHANGED << db, resp, logged_out >>

\* second half: a failed check raises HTTPException; otherwise the UPDATE of the
\* permohonan, then the INSERT of the jadwal when tanggal_pengiriman and lokasi are
\* given, then the commit.  db_error: the INSERT raises a database error
approve_finish(s, db_error) ==
    LET i == sess[s].permohonan_id
        raised == sess[s].status # 200 \/ (sess[s].jadwal /\ db_error)
        new_jadwal == NextId(jadwal_distribusi_pupuk)
        updated == IF sess[s].status # 200 THEN pengajuan_pupuk
                   ELSE [pengajuan_pupuk EXCEPT ![i] =
                           [@ EXCEPT !.jumlah_disetujui = Some(sess[s].jumlah),
                                     !.pupuk_id = sess[s].pupuk_id,
                                     !.status = approve_status_target(sess[s].jadwal,
                                                                      sess[s].jadwal_id),
                                     !.jadwal_event_id = IF sess[s].jadwal_id # 0
                                                         THEN Some(sess[s].jadwal_id) ELSE @]]
        inserted == IF sess[s].status = 200 /\ sess[s].jadwal /\ ~db_error
                    THEN [j \in DOMAIN jadwal_distribusi_pupuk \cup {new_jadwal} |->
                            IF j = new_jadwal
                            THEN [permohonan_id |-> i, status |-> "dijadwalkan"]
                            ELSE jadwal_distribusi_pupuk[j]]
                    ELSE jadwal_distribusi_pupuk
        st == IF sess[s].status # 200 THEN sess[s].status ELSE IF raised THEN 500 ELSE 200
    IN  /\ sess[s].pc = "read"
        /\ sess[s].op = "approve_persetujuan_pupuk"
        /\ pengajuan_pupuk' = get_cursor(pengajuan_pupuk, updated, raised)
        /\ jadwal_distribusi_pupuk' = get_cursor(jadwal_distribusi_pupuk, inserted, raised)
        /\ sess' = [sess EXCEPT ![s].pc = "done", ![s].status = st]
        /\ resp' = [op |-> "approve_persetujuan_pupuk", status |-> st]
        /\ AccountsUnchanged
        /\ UNCHANGED << stok_pupuk, riwayat_stock_pupuk, verifikasi_penerima_pupuk, logged_out >>

\* reject_persetujuan_pupuk, first half: the alasan check passes, the session is opened,
\* the status of the permohonan is read and checked
reject_begin(s, tok, permohonan_id, alasan) ==
    /\ sess[s].pc = "idle"
    /\ require_role({"admin"}, tok).status = 200
    /\ alasan
    /\ sess' = [sess EXCEPT ![s] =
                  [pc |-> "read", op |-> "reject_persetujuan_pupuk", pupuk_id |-> 0,
                   jumlah |-> 0, satuan |-> "",
                   row |-> IF permohonan_id \in DOMAIN pengajuan_pupuk
                           THEN Some(pengajuan_pupuk[permohonan_id]) ELSE None,
                   permohonan_id |-> permohonan_id, jadwal |-> FALSE, jadwal_id |-> 0,
                   status |-> reject_persetujuan_pupuk_status(tok, permohonan_id, alasan)]]
    /\ UNCHANGED << db, resp, logged_out >>

\* second half: the UPDATE (which raises when it names a column the table lacks) and the
\* commit
reject_finish(s) ==
    LET i == sess[s].permohonan_id
        raised == sess[s].status # 200
        updated == IF raised THEN pengajuan_pupuk
                   ELSE [pengajuan_pupuk EXCEPT ![i].status = "ditolak"]
    IN  /\ sess[s].pc = "read"
        /\ sess[s].op = "reject_persetujuan_pupuk"
        /\ pengajuan_pupuk' = get_cursor(pengajuan_pupuk, updated, raised)
        /\ sess' = [sess EXCEPT ![s].pc = "done"]
        /\ resp' = [op |-> "reject_persetujuan_pupuk", status |-> sess[s].status]
        /\ AccountsUnchanged
        /\ UNCHANGED << stok_pupuk, jadwal_distribusi_pupuk, riwayat_stock_pupuk,
                        verifikasi_penerima_pupuk, logged_out >>

\* str.lower() on the status values a request may carry
lower(status) ==
    CASE status = "MULAI" -> "mulai"
      [] status = "Selesai" -> "selesai"
      [] OTHER -> status

\* an update_status_jadwal that accepts 'mulai' whatever the current status of the jadwal
update_status_jadwal_mulai_from_any(tok, jadwal_id, status) ==
    LET auth == require_role({"distributor"}, tok)
        new_status == lower(status)
        jadwal == jadwal_distribusi_pupuk[jadwal_id]
    IN  IF auth.status # 200 THEN auth.status
        ELSE IF new_status \notin {"mulai", "selesai"} THEN 400
        ELSE IF jadwal_id \notin DOMAIN jadwal_distribusi_pupuk THEN 404
        ELSE IF new_status = "mulai" THEN 200
        ELSE IF jadwal.status = "selesai" THEN 200
        ELSE IF jadwal.status # "dikirim" THEN 400
        ELSE IF jadwal.permohonan_id \notin DOMAIN pengajuan_pupuk THEN 404
        ELSE IF pengajuan_pupuk[jadwal.permohonan_id].status \notin {"selesai", "ditolak"}
             THEN 400
        ELSE 200

\* an update_status_jadwal that completes a 'dikirim' jadwal without reading the linked
\* permohonan
update_status_jadwal_selesai_unchecked(tok, jadwal_id, status) ==
    LET auth == require_role({"distributor"}, tok)
        new_status == lower(status)
        jadwal == jadwal_distribusi_pupuk[jadwal_id]
    IN  IF auth.status # 200 THEN auth.status
        ELSE IF new_status \notin {"mulai", "selesai"} THEN 400
        ELSE IF jadwal_id \notin DOMAIN jadwal_distribusi_pupuk THEN 404
        ELSE IF new_status = "mulai"
             THEN IF jadwal.status = "dikirim" THEN 200
                  ELSE IF jadwal.status # "dijadwalkan" THEN 400
                  ELSE 200
             ELSE IF jadwal.status = "selesai" THEN 200
                  ELSE IF jadwal.status # "dikirim" THEN 400
                  ELSE 200

\* PUT /distributor/jadwal-distribusi-pupuk/{jadwal_id}/status (api/routes/distributor.py)
update_status_jadwal_status(tok, jadwal_id, status) ==
    LET auth == require_role({"distributor"}, tok)
        new_status == lower(status)
        jadwal == jadwal_distribusi_pupuk[jadwal_id]
    IN  IF auth.status # 200 THEN auth.status
        ELSE IF new_status \notin {"mulai", "selesai"} THEN 400
        ELSE IF jadwal_id \notin DOMAIN jadwal_distribusi_pupuk THEN 404
        ELSE IF new_status = "mulai"
             THEN IF jadwal.status = "dikirim" THEN 200
                  ELSE IF jadwal.status # "dijadwalkan" THEN 400
                  ELSE 200
             ELSE IF jadwal.status = "selesai" THEN 200
                  ELSE IF jadwal.status # "dikirim" THEN 400
                  ELSE IF jadwal.permohonan_id \notin DOMAIN pengajuan_pupuk THEN 404
                  ELSE IF pengajuan_pupuk[jadwal.permohonan_id].status \notin {"selesai", "ditolak"}
                       THEN 400
                  ELSE 200

\* update_status_jadwal 'mulai': the permohonan rows after the UPDATE of the linked permohonan
mulai_pengajuan_after(permohonan_id) ==
    [i \in DOMAIN pengajuan_pupuk |->
       IF i = permohonan_id THEN [pengajuan_pupuk[i] EXCEPT !.status = "dikirim"]
       ELSE pengajuan_pupuk[i]]

update_status_jadwal(tok, jadwal_id, status) ==
    LET new_status == lower(status)
        jadwal == jadwal_distribusi_pupuk[jadwal_id]
    IN  /\ update_status_jadwal_status(tok, jadwal_id, status) = 200
        /\ IF new_status = "mulai"
           THEN IF jadwal.status = "dikirim"
                THEN UNCHANGED << jadwal_distribusi_pupuk, pengajuan_pupuk >>
                ELSE /\ jadwal_distribusi_pupuk' =
                          [jadwal_distribusi_pupuk EXCEPT ![jadwal_id].status = "dikirim"]
                     /\ pengajuan_pupuk' = mulai_pengajuan_after(jadwal.permohonan_id)
           ELSE IF jadwal.status = "selesai"
                THEN UNCHANGED << jadwal_distribusi_pupuk, pengajuan_pupuk >>
                ELSE /\ jadwal_distribusi_pupuk' =
                          [jadwal_distribusi_pupuk EXCEPT ![jadwal_id].status = "selesai"]
                     /\ UNCHANGED pengajuan_pupuk
        /\ Reply("update_status_jadwal", 200)
        /\ AccountsUnchanged
        /\ UNCHANGED << stok_pupuk, riwayat_stock_pupuk, verifikasi_penerima_pupuk >>

\* a verify_penerima_pupuk that also accepts an approved permohonan with no schedule
verify_allowed_with_terverifikasi == {"dikirim", "dijadwalkan", "terverifikasi"}

\* verify_penerima_pupuk: the statuses from which a permohonan can be verified
verify_allowed_status == {"dikirim", "dijadwalkan"}

\* verify_penerima_pupuk: the jadwal_distribusi_pupuk table after a verification
\* ("Status jadwal_distribusi_pupuk TIDAK otomatis 'selesai'")
verify_jadwal_after(permohonan_id) == jadwal_distribusi_pupuk

\* POST /distributor/verifikasi-penerima-pupuk; no bukti_foto is uploaded.
\* The ledger INSERT ... SELECT copies jumlah_disetujui into the NOT NULL column jumlah:
\* with a NULL jumlah_disetujui it raises, get_cursor rolls back, the answer is 500
verify_penerima_pupuk_status(tok, permohonan_id) ==
    LET auth == require_role({"distributor"}, tok)
    IN  IF auth.status # 200 THEN auth.status
        ELSE IF permohonan_id \notin DOMAIN pengajuan_pupuk THEN 404
        ELSE IF pengajuan_pupuk[permohonan_id].status \notin verify_allowed_status THEN 400
        ELSE IF pengajuan_pupuk[permohonan_id].jumlah_disetujui = None THEN 500
        ELSE 200

verify_penerima_pupuk(tok, permohonan_id) ==
    LET row == pengajuan_pupuk[permohonan_id]
        existing_verif == \E v \in verifikasi_penerima_pupuk : v.permohonan_id = permohonan_id
    IN  /\ verify_penerima_pupuk_status(tok, permohonan_id) = 200
        /\ pengajuan_pupuk' = [pengajuan_pupuk EXCEPT ![permohonan_id].status = "selesai"]
        /\ jadwal_distribusi_pupuk' = verify_jadwal_after(permohonan_id)
        /\ verifikasi_penerima_pupuk' =
             IF existing_verif THEN verifikasi_penerima_pupuk
             ELSE verifikasi_penerima_pupuk \cup
                    {[permohonan_id |-> permohonan_id, distributor_id |-> tok.sub]}
        /\ riwayat_stock_pupuk' =
             Append(riwayat_stock_pupuk,
                    [pupuk_id |-> row.pupuk_id, tipe |-> "kurangi", jumlah |-> row.jumlah_disetujui[1]])
        /\ Reply("verify_penerima_pupuk", 200)
        /\ AccountsUnchanged
        /\ UNCHANGED stok_pupuk

\* a konfirmasi_terima that looks the permohonan up by id only, whoever its petani is
konfirmasi_any_petani(tok, permohonan_id) ==
    LET auth == require_role({"petani"}, tok)
    IN  IF auth.status # 200 THEN auth.status
        ELSE IF permohonan_id \notin DOMAIN pengajuan_pupuk THEN 404
        ELSE IF pengajuan_pupuk[permohonan_id].status # "dikirim" THEN 400
        ELSE 200

\* PATCH /petani/pengajuan_pupuk/{permohonan_id}/konfirmasi (api/routes/petani.py)
konfirmasi_terima_status(tok, permohonan_id) ==
    LET auth == require_role({"petani"}, tok)
    IN  IF auth.status # 200 THEN auth.status
        ELSE IF permohonan_id \notin DOMAIN pengajuan_pupuk THEN 404
        ELSE IF pengajuan_pupuk[permohonan_id].petani_id # auth.id THEN 404
        ELSE IF pengajuan_pupuk[permohonan_id].status # "dikirim" THEN 400
        ELSE 200

\* a konfirmasi_terima that subtracts without max(0, ...)
konfirmasi_stok_unclamped(jumlah_stok, jumlah_disetujui) ==
    jumlah_stok - (IF jumlah_disetujui = None THEN 0 ELSE jumlah_disetujui[1])

\* konfirmasi_terima: the stock the confirmation leaves ("Decrement stok")
konfirmasi_stok_after(jumlah_stok, jumlah_disetujui) ==
    Max(0, jumlah_stok - (IF jumlah_disetujui = None THEN 0 ELSE jumlah_disetujui[1]))

konfirmasi_terima(tok, permohonan_id) ==
    LET row == pengajuan_pupuk[permohonan_id]
    IN  /\ konfirmasi_terima_status(tok, permohonan_id) = 200
        /\ pengajuan_pupuk' = [pengajuan_pupuk EXCEPT ![permohonan_id].status = "selesai"]
        /\ stok_pupuk' =
             [p \in DOMAIN stok_pupuk |->
                IF p = row.pupuk_id
                THEN [stok_pupuk[p] EXCEPT
                        !.jumlah_stok = konfirmasi_stok_after(@, row.jumlah_disetujui)]
                ELSE stok_pupuk[p]]
        /\ Reply("konfirmasi_terima", 200)
        /\ AccountsUnchanged
        /\ UNCHANGED << jadwal_distribusi_pupuk, riwayat_stock_pupuk, verifikasi_penerima_pupuk >>

(* ---------------- account handlers ---------------- *)
\* strings the handlers take apart are sequences of characters
NikLen == 16

Digit == {"0", "1", "2", "3", "4", "5", "6", "7", "8", "9"}

Whitespace == {" "}

Repeat(c, n) == [i \in 1..n |-> c]

\* str.strip(): leading and trailing whitespace removed
RECURSIVE strip(_)
strip(s) ==
    IF s = << >> THEN s
    ELSE IF Head(s) \in Whitespace THEN strip(Tail(s))
    ELSE IF s[Len(s)] \in Whitespace THEN strip(SubSeq(s, 1, Len(s) - 1))
    ELSE s

\* re.fullmatch(r"\d{16}", nik)
nik_fullmatch(nik) == Len(nik) = NikLen /\ \A i \in 1..Len(nik) : nik[i] \in Digit

\* users.username UNIQUE and profile_petani.nik UNIQUE, as the handlers query them
username_exists(username) == \E u \in DOMAIN users : users[u].username = username

nik_exists(nik) == \E u \in DOMAIN profile_petani : profile_petani[u].nik = nik

\* a profile_petani table whose nik column is not declared unique
nik_not_unique(user_id, nik) == FALSE

\* profile_petani.nik UNIQUE: the row of user_id cannot take a nik another row holds
nik_unique_violation(user_id, nik) ==
    \E u \in DOMAIN profile_petani \ {user_id} : profile_petani[u].nik = nik

\* save_upload_file: an upload with an unsupported extension or no content raises 400
Foto == {"ok", "bad"}

\* create_or_update_profile_petani, the profile_petani table after its commit
profile_petani_after(user_id, nik) ==
    [u \in DOMAIN profile_petani \cup {user_id} |->
       IF u = user_id THEN [nik |-> nik] ELSE profile_petani[u]]

\* a register_petani that looks for the NIK in profile_petani only, not in users
register_petani_precheck_profile_only(nik_raw, password) ==
    LET nik == strip(nik_raw)
    IN  IF ~nik_fullmatch(nik) THEN 400
        ELSE IF ~password THEN 400
        ELSE IF nik_exists(nik) THEN 409
        ELSE 200

\* POST /auth/register_petani (api/routes/auth.py), the checks made before any write
register_petani_precheck(nik_raw, password) ==
    LET nik == strip(nik_raw)
    IN  IF ~nik_fullmatch(nik) THEN 400
        ELSE IF ~password THEN 400
        ELSE IF nik_exists(nik) THEN 409
        ELSE IF username_exists(nik) THEN 409
        ELSE 200

\* password: a non-empty password is given.  The users row is committed before the
\* profile is made: an upload that is refused leaves the user without a profile
register_petani_status(nik_raw, password, foto_ktp) ==
    IF register_petani_precheck(nik_raw, password) # 200
    THEN register_petani_precheck(nik_raw, password)
    ELSE IF foto_ktp = "bad" THEN 400
    ELSE 200

register_petani(nik_raw, password, foto_ktp) ==
    LET nik == strip(nik_raw)
        new_id == NextId(users)
    IN  /\ register_petani_precheck(nik_raw, password) = 200
        /\ new_id <= MaxUser
        /\ users' = [u \in DOMAIN users \cup {new_id} |->
                       IF u = new_id THEN [username |-> nik, role |-> "petani"] ELSE users[u]]
        /\ profile_petani' = IF foto_ktp = "bad" THEN profile_petani
                             ELSE profile_petani_after(new_id, nik)
        /\ Reply("register_petani", register_petani_status(nik_raw, password, foto_ktp))
        /\ UNCHANGED << profile_lain, stok_pupuk, pengajuan_pupuk, jadwal_distribusi_pupuk,
                        riwayat_stock_pupuk, verifikasi_penerima_pupuk >>

\* POST /petani/profile/update (api/routes/petani.py).  A nik another profile holds makes
\* db.commit() raise IntegrityError: the session is rolled back, the answer is 500
update_profile_status(tok, nik_raw, foto_ktp) ==
    LET auth == require_role({"petani"}, tok)
        nik == strip(nik_raw)
    IN  IF auth.status # 200 THEN auth.status
        ELSE IF ~nik_fullmatch(nik) THEN 400
        ELSE IF foto_ktp = "bad" THEN 400
        ELSE IF nik_unique_violation(auth.id, nik) THEN 500
        ELSE 200

update_profile(tok, nik_raw, foto_ktp) ==
    LET st == update_profile_status(tok, nik_raw, foto_ktp)
    IN  /\ st \in {200, 500}
        /\ profile_petani' = IF st = 200 THEN profile_petani_after(tok.sub, strip(nik_raw))
                             ELSE profile_petani
        /\ Reply("update_profile", st)
        /\ UNCHANGED << users, profile_lain, stok_pupuk, pengajuan_pupuk,
                        jadwal_distribusi_pupuk, riwayat_stock_pupuk,
                        verifikasi_penerima_pupuk >>

\* create_user: the profile table of a role
profile_table(role) ==
    CASE role = "admin" -> "profile_admin"
      [] role = "distributor" -> "profile_distributor"
      [] role = "super_admin" -> "profile_superadmin"
      [] OTHER -> "profile_petani"

\* POST /superadmin/users/add (api/routes/superadmin.py); perusahaan: the field is given.
\* The profile INSERT raises when a row with the new user's id is left in the profile
\* table (user_id is its primary key): get_cursor rolls back, the answer is 500
create_user_status(tok, username, role, perusahaan) ==
    LET auth == require_role({"super_admin"}, tok)
    IN  IF auth.status # 200 THEN auth.status
        ELSE IF role \notin {"admin", "distributor", "super_admin"} THEN 400
        ELSE IF role = "distributor" /\ ~perusahaan THEN 400
        ELSE IF username_exists(username) THEN 409
        ELSE IF [user_id |-> NextId(users), tabel |-> profile_table(role)] \in profile_lain
             THEN 500
        ELSE 200

create_user(tok, username, role, perusahaan) ==
    LET st == create_user_status(tok, username, role, perusahaan)
        new_id == NextId(users)
    IN  /\ st \in {200, 500}
        /\ new_id <= MaxUser
        /\ IF st = 200
           THEN /\ users' = [u \in DOMAIN users \cup {new_id} |->
                               IF u = new_id THEN [username |-> username, role |-> role]
                               ELSE users[u]]
                /\ profile_lain' = profile_lain \cup
                                     {[user_id |-> new_id, tabel |-> profile_table(role)]}
           ELSE UNCHANGED << users, profile_lain >>
        /\ Reply("create_user", st)
        /\ UNCHANGED << profile_petani, stok_pupuk, pengajuan_pupuk, jadwal_distribusi_pupuk,
                        riwayat_stock_pupuk, verifikasi_penerima_pupuk >>

\* PUT /superadmin/users/{user_id}: writes password_hash, nama_lengkap, alamat, no_hp,
\* perusahaan; username, role and nik are not among the columns it updates
edit_user_status(tok, user_id) ==
    LET auth == require_role({"super_admin"}, tok)
    IN  IF auth.status # 200 THEN auth.status
        ELSE IF user_id \notin DOMAIN users THEN 404
        ELSE 200

edit_user(tok, user_id) ==
    /\ edit_user_status(tok, user_id) = 200
    /\ Reply("edit_user", 200)
    /\ UNCHANGED db

\* ON DELETE RESTRICT: rows that keep a users row from being deleted where the database
\* enforces foreign keys (pengajuan_pupuk through profile_petani, verifikasi_penerima_pupuk)
delete_restricted(user_id) ==
    \/ /\ user_id \in DOMAIN profile_petani
       /\ \E i \in DOMAIN pengajuan_pupuk : pengajuan_pupuk[i].petani_id = user_id
    \/ \E v \in verifikasi_penerima_pupuk : v.distributor_id = user_id

\* DELETE /superadmin/users/{user_id}; foreign_keys: the database enforces foreign keys
\* (PostgreSQL does; SQLite does not unless PRAGMA foreign_keys is set, and it is not)
delete_user_status(tok, user_id, foreign_keys) ==
    LET auth == require_role({"super_admin"}, tok)
    IN  IF auth.status # 200 THEN auth.status
        ELSE IF user_id \notin DOMAIN users THEN 404
        ELSE IF foreign_keys /\ delete_restricted(user_id) THEN 500
        ELSE 200

delete_user(tok, user_id, foreign_keys) ==
    LET st == delete_user_status(tok, user_id, foreign_keys)
    IN  /\ st \in {200, 500}
        /\ IF st = 200
           THEN /\ users' = [u \in DOMAIN users \ {user_id} |-> users[u]]
                /\ profile_petani' =
                     IF foreign_keys
                     THEN [u \in DOMAIN profile_petani \ {user_id} |-> profile_petani[u]]
                     ELSE profile_petani
                /\ profile_lain' =
                     IF foreign_keys THEN {r \in profile_lain : r.user_id # user_id}
                     ELSE profile_lain
           ELSE UNCHANGED << users, profile_petani, profile_lain >>
        /\ Reply("delete_user", st)
        /\ UNCHANGED << stok_pupuk, pengajuan_pupuk, jadwal_distribusi_pupuk,
                        riwayat_stock_pupuk, verifikasi_penerima_pupuk >>

\* POST /auth/logout (api/routes/auth.py): "Client should discard the token"
logout_status(tok) == get_current_user(tok).status

logout(tok) ==
    /\ logout_status(tok) = 200
    /\ Cardinality(logged_out \cup {tok}) <= MaxLogout
    /\ resp' = [op |-> "logout", status |-> 200]
    /\ logged_out' = logged_out \cup {tok}
    /\ UNCHANGED << db, sess >>

(* ---------------- initial database ---------------- *)
NamaPupuk == {"Urea", "TSP"}

\* the accounts: a petani with a profile (username = NIK), an admin, a distributor,
\* a super admin
InitUsers ==
    /\ users = [u \in 1..4 |->
                  CASE u = 1 -> [username |-> Repeat("1", NikLen), role |-> "petani"]
                    [] u = 2 -> [username |-> << "a", "d", "m" >>, role |-> "admin"]
                    [] u = 3 -> [username |-> << "d", "i", "s" >>, role |-> "distributor"]
                    [] u = 4 -> [username |-> << "s", "u" >>, role |-> "super_admin"]]
    /\ profile_petani = [u \in {1} |-> [nik |-> users[u].username]]
    /\ profile_lain = {[user_id |-> 2, tabel |-> "profile_admin"],
                       [user_id |-> 3, tabel |-> "profile_distributor"],
                       [user_id |-> 4, tabel |-> "profile_superadmin"]}

\* a session that has not started its request
Idle == [pc |-> "idle", op |-> "none", pupuk_id |-> 0, jumlah |-> 0, satuan |-> "", row |-> None,
         permohonan_id |-> 0, jadwal |-> FALSE, jadwal_id |-> 0, status |-> 0]

Sessions == {1, 2}

InitRest ==
    /\ riwayat_stock_pupuk = << >>
    /\ verifikasi_penerima_pupuk = {}
    /\ resp = [op |-> "none", status |-> 0]
    /\ logged_out = {}
    /\ sess = [s \in Sessions |-> Idle]

\* two kinds of pupuk in stock
InitStok ==
    stok_pupuk = [p \in 1..2 |-> IF p = 1
                                 THEN [nama_pupuk |-> "Urea", jumlah_stok |-> 2, satuan |-> "kg"]
                                 ELSE [nama_pupuk |-> "TSP", jumlah_stok |-> 1, satuan |-> "kg"]]

\* the unexpired login tokens of the accounts
PetaniTokens == {create_access_token(1)}
AdminToken == create_access_token(2)
DistributorToken == create_access_token(3)
SuperadminToken == create_access_token(4)

(* ---------------- Spec: the permohonan workflow, one request at a time ---------------- *)
Init ==
    /\ InitUsers
    /\ InitStok
    /\ pengajuan_pupuk = << >>
    /\ jadwal_distribusi_pupuk = << >>
    /\ InitRest

Ajukan == \E tok \in PetaniTokens, nama \in NamaPupuk \cup {"ZA"}, j \in 0..1 :
    ajukan_permohonan(tok, nama, j)

Approve == \E i \in 1..MaxPermohonan + 1, j \in 0..MaxJumlah,
              p \in 0..MaxPupuk + 1, jadwal \in BOOLEAN, ev \in 0..2 :
    approve_persetujuan_pupuk(AdminToken, i, j, p, jadwal, ev)

Reject == \E i \in 1..MaxPermohonan + 1, alasan \in BOOLEAN :
    reject_persetujuan_pupuk(AdminToken, i, alasan)

UpdateJadwal == \E j \in 1..MaxPermohonan + 1, st \in {"mulai", "MULAI", "Selesai", "batal"} :
    update_status_jadwal(DistributorToken, j, st)

Verify == \E i \in 1..MaxPermohonan + 1 :
    verify_penerima_pupuk(DistributorToken, i)

Konfirmasi == \E tok \in PetaniTokens, i \in 1..MaxPermohonan + 1 :
    konfirmasi_terima(tok, i)

Next ==
    \/ Ajukan
    \/ Approve
    \/ Reject
    \/ UpdateJadwal
    \/ Verify
    \/ Konfirmasi

Spec == Init /\ [][Next]_vars

(* ---------------- the workflow of a permohonan ---------------- *)
\* the single steps of pending -> terverifikasi -> dijadwalkan -> dikirim -> selesai
\* and pending -> ditolak
WorkflowSteps == {<< "pending", "terverifikasi" >>, << "terverifikasi", "dijadwalkan" >>,
                  << "dijadwalkan", "dikirim" >>, << "dikirim", "selesai" >>,
                  << "pending", "ditolak" >>}

\* C2: every change of a pengajuan_pupuk status made by a handler is one step of the
\* workflow pending -> terverifikasi -> dijadwalkan -> dikirim -> selesai or
\* pending -> ditolak: no step is skipped and no request moves backward.
C2_StatusChangeIsOneWorkflowStep ==
    [][\A i \in DOMAIN pengajuan_pupuk :
          pengajuan_pupuk'[i].status # pengajuan_pupuk[i].status
            => << pengajuan_pupuk[i].status, pengajuan_pupuk'[i].status >> \in WorkflowSteps]_vars

\* C3: a permohonan approved without schedule data (status 'terverifikasi') can be moved
\* on by some handler: in every state, for every such permohonan, some request changes
\* its status (to 'dijadwalkan', the step on its way to 'selesai').
C3_TerverifikasiCanMoveOn ==
    \A i \in DOMAIN pengajuan_pupuk :
        pengajuan_pupuk[i].status = "terverifikasi"
          => ENABLED (Next /\ pengajuan_pupuk'[i].status # "terverifikasi")

\* C4: after verify_penerima_pupuk succeeds for a permohonan in status 'dikirim' whose
\* jadwal_distribusi_pupuk row is in status 'dikirim', the permohonan is 'selesai' and
\* its jadwal_distribusi_pupuk row is 'selesai'.
C4_VerifyCompletesPermohonanAndJadwal ==
    [][\A i \in DOMAIN pengajuan_pupuk, j \in DOMAIN jadwal_distribusi_pupuk :
          ( /\ verify_penerima_pupuk(DistributorToken, i)
            /\ pengajuan_pupuk[i].status = "dikirim"
            /\ jadwal_distribusi_pupuk[j].permohonan_id = i
            /\ jadwal_distribusi_pupuk[j].status = "dikirim" )
          => /\ pengajuan_pupuk'[i].status = "selesai"
             /\ jadwal_distribusi_pupuk'[j].status = "selesai"]_vars

\* C12: 'selesai' and 'ditolak' are terminal: once the status of a permohonan is
\* 'selesai' or 'ditolak', no request (approve_persetujuan_pupuk, reject_persetujuan_pupuk,
\* update_status_jadwal, verify_penerima_pupuk, konfirmasi_terima) changes it again.
C12_SelesaiAndDitolakAreTerminal ==
    [][\A i \in DOMAIN pengajuan_pupuk :
          pengajuan_pupuk[i].status \in {"selesai", "ditolak"}
            => pengajuan_pupuk'[i].status = pengajuan_pupuk[i].status]_vars

RefusedUnlessPending(i, j, p, jadwal, ev, alasan) ==
    /\ approve_persetujuan_pupuk_status(AdminToken, i, j, p, jadwal, ev) =
         (IF j > 0 /\ i \notin DOMAIN pengajuan_pupuk THEN 404 ELSE 400)
    /\ reject_persetujuan_pupuk_status(AdminToken, i, alasan) =
         (IF alasan /\ i \notin DOMAIN pengajuan_pupuk THEN 404 ELSE 400)
    /\ ~ENABLED approve_persetujuan_pupuk(AdminToken, i, j, p, jadwal, ev)
    /\ ~ENABLED reject_persetujuan_pupuk(AdminToken, i, alasan)

Approvable(i, j, p, ev) ==
    LET own == pengajuan_pupuk[i].pupuk_id
        target == IF p # 0 /\ p # own THEN p ELSE own
    IN  /\ j > 0
        /\ target \in DOMAIN stok_pupuk
        /\ j <= stok_pupuk[target].jumlah_stok
        /\ ev # 0 => ev \in jadwal_distribusi_event

C17_RejectSetsDitolak ==
    [][\A i \in DOMAIN pengajuan_pupuk :
          (reject_persetujuan_pupuk(AdminToken, i, TRUE) /\ pengajuan_pupuk[i].status = "pending")
            => /\ resp'.status = 200
               /\ pengajuan_pupuk'[i].status = "ditolak"
               /\ \A k \in DOMAIN pengajuan_pupuk \ {i} : pengajuan_pupuk'[k] = pengajuan_pupuk[k]
               /\ stok_pupuk' = stok_pupuk]_vars

\* C18: verify_penerima_pupuk takes effect only for a permohonan whose status is 'dikirim'
\* or 'dijadwalkan': for any other status it returns 400, for an unknown id 404, and in
\* both cases writes nothing; every step that writes verifikasi_penerima_pupuk or
\* riwayat_stock_pupuk completes a permohonan that was 'dikirim' or 'dijadwalkan' and
\* changes no other permohonan.
C18_VerifyOnlyDikirimOrDijadwalkan ==
    /\ [](\A i \in 1..MaxPermohonan + 1 :
            /\ i \notin DOMAIN pengajuan_pupuk
                 => /\ verify_penerima_pupuk_status(DistributorToken, i) = 404
                    /\ ~ENABLED verify_penerima_pupuk(DistributorToken, i)
            /\ (i \in DOMAIN pengajuan_pupuk
                  /\ pengajuan_pupuk[i].status \notin {"dikirim", "dijadwalkan"})
                 => /\ verify_penerima_pupuk_status(DistributorToken, i) = 400
                    /\ ~ENABLED verify_penerima_pupuk(DistributorToken, i))
    /\ [][(verifikasi_penerima_pupuk' # verifikasi_penerima_pupuk
             \/ riwayat_stock_pupuk' # riwayat_stock_pupuk)
            => \E i \in DOMAIN pengajuan_pupuk :
                 /\ pengajuan_pupuk[i].status \in {"dikirim", "dijadwalkan"}
                 /\ pengajuan_pupuk'[i].status = "selesai"
                 /\ \A k \in DOMAIN pengajuan_pupuk \ {i} :
                      pengajuan_pupuk'[k] = pengajuan_pupuk[k]]_vars

\* C18 witness: permohonan 1 has been verified and is 'selesai', so that verifying it
\* again is refused with 400; permohonan 2 does not exist
C18_Witness ==
    /\ resp = [op |-> "verify_penerima_pupuk", status |-> 200]
    /\ pengajuan_pupuk[1].status = "selesai"
    /\ Len(riwayat_stock_pupuk) = 1
    /\ verify_penerima_pupuk_status(DistributorToken, 1) = 400
    /\ verify_penerima_pupuk_status(DistributorToken, 2) = 404

\* the statuses update_status_jadwal takes in a request, as the requests spell them
StatusInputs == {"mulai", "MULAI", "Selesai", "batal"}

\* the single steps of dijadwalkan -> dikirim -> selesai
JadwalSteps == {<< "dijadwalkan", "dikirim" >>, << "dikirim", "selesai" >>}

\* the request asks for the step the jadwal is ready for: 'mulai' on a jadwal that is
\* 'dijadwalkan', 'selesai' on one that is 'dikirim'
AsksNextStep(j, st) ==
    /\ j \in DOMAIN jadwal_distribusi_pupuk
    /\ \/ lower(st) = "mulai" /\ jadwal_distribusi_pupuk[j].status = "dijadwalkan"
       \/ lower(st) = "selesai" /\ jadwal_distribusi_pupuk[j].status = "dikirim"

\* the request repeats the step the jadwal has already taken
RepeatsStep(j, st) ==
    /\ j \in DOMAIN jadwal_distribusi_pupuk
    /\ \/ lower(st) = "mulai" /\ jadwal_distribusi_pupuk[j].status = "dikirim"
       \/ lower(st) = "selesai" /\ jadwal_distribusi_pupuk[j].status = "selesai"

\* every jadwal_distribusi_pupuk row is kept, a new row is 'dijadwalkan', and a status
\* changes by one step forward only
JadwalMovesForward ==
    /\ DOMAIN jadwal_distribusi_pupuk \subseteq DOMAIN jadwal_distribusi_pupuk'
    /\ \A j \in DOMAIN jadwal_distribusi_pupuk' :
         IF j \in DOMAIN jadwal_distribusi_pupuk
         THEN \/ jadwal_distribusi_pupuk'[j] = jadwal_distribusi_pupuk[j]
              \/ /\ << jadwal_distribusi_pupuk[j].status,
                       jadwal_distribusi_pupuk'[j].status >> \in JadwalSteps
                 /\ jadwal_distribusi_pupuk'[j].permohonan_id =
                      jadwal_distribusi_pupuk[j].permohonan_id
         ELSE jadwal_distribusi_pupuk'[j].status = "dijadwalkan"

\* C21 as stated: the status of a jadwal_distribusi_pupuk row only moves
\* dijadwalkan -> dikirim -> selesai, and update_status_jadwal accepts 'mulai' only from
\* 'dijadwalkan' and 'selesai' only from 'dikirim': any other request returns 400 (404 for
\* an unknown jadwal) and leaves the row unchanged.
C21_AnyOtherRequestRefused ==
    /\ [](\A j \in 1..MaxPermohonan + 1, st \in StatusInputs :
            ~AsksNextStep(j, st)
              => /\ update_status_jadwal_status(DistributorToken, j, st) =
                      (IF j \in DOMAIN jadwal_distribusi_pupuk THEN 400 ELSE 404)
                 /\ ~ENABLED update_status_jadwal(DistributorToken, j, st))
    /\ [][JadwalMovesForward]_vars

\* C21 amended: the status of a jadwal_distribusi_pupuk row only moves
\* dijadwalkan -> dikirim -> selesai: a row is created 'dijadwalkan', never removed, and
\* no request moves it backward or skips a step.  update_status_jadwal changes a row only
\* by 'mulai' from 'dijadwalkan' or 'selesai' from 'dikirim'; a status other than
\* 'mulai'/'selesai' returns 400, then an unknown jadwal 404, a request that repeats the
\* step already taken ('mulai' on 'dikirim', 'selesai' on 'selesai') returns 200 and
\* changes nothing, and every other request returns 400 and changes nothing.
C21_JadwalOnlyMovesForward ==
    /\ [](\A j \in 1..MaxPermohonan + 1, st \in StatusInputs :
            ~AsksNextStep(j, st)
              => IF RepeatsStep(j, st)
                 THEN update_status_jadwal_status(DistributorToken, j, st) = 200
                 ELSE /\ update_status_jadwal_status(DistributorToken, j, st) =
                           (IF lower(st) \in {"mulai", "selesai"}
                               /\ j \notin DOMAIN jadwal_distribusi_pupuk
                            THEN 404 ELSE 400)
                      /\ ~ENABLED update_status_jadwal(DistributorToken, j, st))
    /\ [][/\ JadwalMovesForward
          /\ \A j \in 1..MaxPermohonan + 1, st \in StatusInputs :
               (update_status_jadwal(DistributorToken, j, st) /\ ~AsksNextStep(j, st))
                 => /\ jadwal_distribusi_pupuk' = jadwal_distribusi_pupuk
                    /\ pengajuan_pupuk' = pengajuan_pupuk]_vars

\* C21 witness: jadwal 1 has gone dijadwalkan -> dikirim -> selesai, so that 'mulai' on it
\* is refused with 400 and 'selesai' repeats the step taken; jadwal 2 does not exist
C21_Witness ==
    /\ resp = [op |-> "update_status_jadwal", status |-> 200]
    /\ 1 \in DOMAIN jadwal_distribusi_pupuk
    /\ jadwal_distribusi_pupuk[1].status = "selesai"
    /\ update_status_jadwal_status(DistributorToken, 1, "mulai") = 400
    /\ update_status_jadwal_status(DistributorToken, 1, "Selesai") = 200
    /\ update_status_jadwal_status(DistributorToken, 2, "mulai") = 404
    /\ update_status_jadwal_status(DistributorToken, 2, "batal") = 400

StokDikirim == << [nama_pupuk |-> "Urea", jumlah_stok |-> 2, satuan |-> "kg"] >>

InitDikirim ==
    /\ InitUsers
    /\ stok_pupuk = StokDikirim
    /\ pengajuan_pupuk = << [petani_id |-> 1, pupuk_id |-> 1, jumlah_diminta |-> 2,
                             jumlah_disetujui |-> Some(2), status |-> "dikirim",
                             jadwal_event_id |-> None] >>
    /\ jadwal_distribusi_pupuk = << [permohonan_id |-> 1, status |-> "dikirim"] >>
    /\ InitRest

\* the quantities a stock request may carry
Jumlah == -1..MaxJumlah

\* StokPupukCreate.satuan is any string, the empty one included
SatuanStok == Satuan \cup {""}

CreateStok == \E nama \in NamaPupuk, jumlah \in Jumlah, satuan \in SatuanStok :
    create_stok_pupuk(AdminToken, nama, jumlah, satuan)

UpdateStok == \E p \in 1..MaxPupuk + 1, jumlah \in {None} \cup {Some(n) : n \in Jumlah} :
    update_stok_pupuk(AdminToken, p, jumlah)

TambahStock == \E p \in 1..MaxPupuk + 1, jumlah \in Jumlah, satuan \in Satuan :
    tambah_stock_pupuk(AdminToken, p, jumlah, satuan)

KurangiStock == \E p \in 1..MaxPupuk + 1, jumlah \in Jumlah, satuan \in Satuan :
    kurangi_stock_pupuk(AdminToken, p, jumlah, satuan)

NextStock ==
    \/ CreateStok
    \/ UpdateStok
    \/ TambahStock
    \/ KurangiStock
    \/ Konfirmasi

SpecStock == InitDikirim /\ [][NextStock]_vars

\* C1: stock never goes negative: after any sequence of sequentially executed
\* create_stok_pupuk, update_stok_pupuk, tambah_stock_pupuk, kurangi_stock_pupuk and
\* konfirmasi_terima requests, jumlah_stok of every stok_pupuk row is >= 0.
C1_StockNeverNegative ==
    \A p \in DOMAIN stok_pupuk : stok_pupuk[p].jumlah_stok >= 0

\* C10: a successful tambah_stock_pupuk(pupuk_id, jumlah > 0, satuan equal to the stock's
\* satuan, or any satuan where the stock's satuan is empty) raises jumlah_stok of exactly that pupuk by exactly jumlah and appends exactly
\* one riwayat_stock_pupuk row of tipe 'tambah' with that jumlah; the stock of every
\* other pupuk and every pengajuan_pupuk row are unchanged.
C10_TambahFrameEffect ==
    [][\A p \in 1..MaxPupuk + 1, jumlah \in Jumlah, satuan \in Satuan :
          tambah_stock_pupuk(AdminToken, p, jumlah, satuan)
          => /\ jumlah > 0 /\ stok_pupuk[p].satuan \in {satuan, ""}
             /\ DOMAIN stok_pupuk' = DOMAIN stok_pupuk
             /\ stok_pupuk'[p] = [stok_pupuk[p] EXCEPT !.jumlah_stok = @ + jumlah]
             /\ \A q \in DOMAIN stok_pupuk \ {p} : stok_pupuk'[q] = stok_pupuk[q]
             /\ Len(riwayat_stock_pupuk') = Len(riwayat_stock_pupuk) + 1
             /\ SubSeq(riwayat_stock_pupuk', 1, Len(riwayat_stock_pupuk)) = riwayat_stock_pupuk
             /\ LET row == riwayat_stock_pupuk'[Len(riwayat_stock_pupuk')]
                IN  row.pupuk_id = p /\ row.tipe = "tambah" /\ row.jumlah = jumlah
             /\ pengajuan_pupuk' = pengajuan_pupuk]_vars

\* C10 witness: a tambah_stock_pupuk request has succeeded while a second pupuk is in
\* stock, and its ledger row is the last of riwayat_stock_pupuk
C10_Witness ==
    /\ resp = [op |-> "tambah_stock_pupuk", status |-> 200]
    /\ Cardinality(DOMAIN stok_pupuk) >= 2
    /\ Len(riwayat_stock_pupuk) >= 1
    /\ riwayat_stock_pupuk[Len(riwayat_stock_pupuk)].tipe = "tambah"

\* C11 as stated: kurangi_stock_pupuk with jumlah greater than the current jumlah_stok,
\* jumlah <= 0, an unknown pupuk_id, or a satuan different from the stock's satuan returns
\* an error (400, or 404 for the unknown id), leaves jumlah_stok unchanged and appends no
\* riwayat_stock_pupuk row.
C11_KurangiRefusedOnAnyOtherSatuan ==
    \A p \in 1..MaxPupuk + 1, jumlah \in Jumlah, satuan \in Satuan :
        ( \/ jumlah <= 0
          \/ p \notin DOMAIN stok_pupuk
          \/ stok_pupuk[p].satuan # satuan
          \/ jumlah > stok_pupuk[p].jumlah_stok )
          => /\ kurangi_stock_pupuk_status(AdminToken, p, jumlah, satuan) \in {400, 404}
             /\ ~ENABLED kurangi_stock_pupuk(AdminToken, p, jumlah, satuan)

\* C11 amended: kurangi_stock_pupuk with jumlah <= 0, an unknown pupuk_id, a satuan
\* different from a non-empty satuan of the stock, or jumlah greater than the current
\* jumlah_stok is answered 400 (404 exactly for an unknown id with jumlah > 0) and writes
\* nothing; a stock row whose satuan is empty accepts every satuan.
C11_KurangiRefusedWithoutEffect ==
    \A p \in 1..MaxPupuk + 1, jumlah \in Jumlah, satuan \in Satuan :
        LET st == kurangi_stock_pupuk_status(AdminToken, p, jumlah, satuan)
        IN  /\ ( \/ jumlah <= 0
                 \/ p \notin DOMAIN stok_pupuk
                 \/ stok_pupuk[p].satuan \notin {satuan, ""}
                 \/ jumlah > stok_pupuk[p].jumlah_stok )
                 => /\ st = (IF jumlah > 0 /\ p \notin DOMAIN stok_pupuk THEN 404 ELSE 400)
                    /\ ~ENABLED kurangi_stock_pupuk(AdminToken, p, jumlah, satuan)
            /\ ( /\ jumlah > 0
                 /\ p \in DOMAIN stok_pupuk
                 /\ stok_pupuk[p].satuan = ""
                 /\ jumlah <= stok_pupuk[p].jumlah_stok ) => st = 200

\* C11 witness: a kurangi_stock_pupuk has brought the stock of pupuk 1 down to 1 kg, so
\* that a request for 2 kg exceeds it, as does one in another satuan
C11_Witness ==
    /\ resp = [op |-> "kurangi_stock_pupuk", status |-> 200]
    /\ stok_pupuk[1].jumlah_stok = 1 /\ stok_pupuk[1].satuan = "kg"
    /\ kurangi_stock_pupuk_status(AdminToken, 1, 2, "kg") = 400
    /\ kurangi_stock_pupuk_status(AdminToken, 1, 1, "ton") = 400

\* C20: a successful konfirmasi_terima sets the permohonan to 'selesai' and, in the same
\* step, sets the jumlah_stok of that permohonan's pupuk to max(0, jumlah_stok -
\* jumlah_disetujui), a null jumlah_disetujui counted as 0; the stock of every other pupuk
\* is unchanged.
C20_KonfirmasiClampsStockAtZero ==
    /\ [](\A n \in -1..MaxStok : konfirmasi_stok_after(n, None) = (IF n >= 0 THEN n ELSE 0))
    /\ [][\A tok \in PetaniTokens, i \in 1..MaxPermohonan + 1 :
             konfirmasi_terima(tok, i)
               => LET row == pengajuan_pupuk[i]
                      jd == IF row.jumlah_disetujui = None THEN 0 ELSE row.jumlah_disetujui[1]
                  IN  /\ pengajuan_pupuk'[i].status = "selesai"
                      /\ DOMAIN stok_pupuk' = DOMAIN stok_pupuk
                      /\ \A p \in DOMAIN stok_pupuk :
                           IF p = row.pupuk_id
                           THEN stok_pupuk'[p] =
                                  [stok_pupuk[p] EXCEPT !.jumlah_stok =
                                     IF @ - jd >= 0 THEN @ - jd ELSE 0]
                           ELSE stok_pupuk'[p] = stok_pupuk[p]]_vars

\* C20 witness: the petani has confirmed permohonan 1 (2 kg of pupuk 1) while a second
\* pupuk was in stock and the stock of pupuk 1 had been lowered by a kurangi_stock_pupuk
C20_Witness ==
    /\ resp = [op |-> "konfirmasi_terima", status |-> 200]
    /\ pengajuan_pupuk[1].status = "selesai"
    /\ stok_pupuk[1].jumlah_stok = 0
    /\ 2 \in DOMAIN stok_pupuk
    /\ Len(riwayat_stock_pupuk) = 1 /\ riwayat_stock_pupuk[1].tipe = "kurangi"

(* ---------------- SpecLedger: the requests that write stock or ledger ---------------- *)
NextLedger ==
    \/ TambahStock
    \/ KurangiStock
    \/ UpdateStok
    \/ Konfirmasi
    \/ Verify

SpecLedger == InitDikirim /\ [][NextLedger]_vars

\* the sum of jumlah over the rows of a ledger that are of pupuk_id and tipe
RECURSIVE SumJumlah(_, _, _)
SumJumlah(rows, pupuk_id, tipe) ==
    IF rows = << >> THEN 0
    ELSE (IF Head(rows).pupuk_id = pupuk_id /\ Head(rows).tipe = tipe
          THEN Head(rows).jumlah ELSE 0)
         + SumJumlah(Tail(rows), pupuk_id, tipe)

\* C13: the stock ledger matches the stock: in every state reachable by tambah_stock_pupuk,
\* kurangi_stock_pupuk, update_stok_pupuk, konfirmasi_terima and verify_penerima_pupuk
\* requests, jumlah_stok of every pupuk equals its initial value plus the sum of jumlah
\* over its 'tambah' riwayat_stock_pupuk rows minus the sum over its 'kurangi' rows.
C13_LedgerMatchesStock ==
    \A p \in DOMAIN StokDikirim :
        stok_pupuk[p].jumlah_stok =
            StokDikirim[p].jumlah_stok
            + SumJumlah(riwayat_stock_pupuk, p, "tambah")
            - SumJumlah(riwayat_stock_pupuk, p, "kurangi")

(* ---------------- SpecApprove: approvals of two permohonan on one stock pool ---------------- *)
\* a petani has submitted two permohonan for Urea (2 kg in stock), both still pending
InitPending ==
    /\ InitUsers
    /\ InitStok
    /\ pengajuan_pupuk = [i \in 1..2 |->
                            [petani_id |-> 1, pupuk_id |-> 1, jumlah_diminta |-> i,
                             jumlah_disetujui |-> None, status |-> "pending",
                             jadwal_event_id |-> None]]
    /\ jadwal_distribusi_pupuk = << >>
    /\ InitRest

NextApprove ==
    \/ Approve
    \/ Reject

SpecApprove == InitPending /\ [][NextApprove]_vars

\* the statuses of an approved permohonan whose pupuk has not been handed over yet
Committed == {"terverifikasi", "dijadwalkan", "dikirim"}

\* the sum of jumlah_disetujui over the permohonan among ids that are committed on pupuk p
RECURSIVE SumDisetujui(_, _)
SumDisetujui(ids, p) ==
    IF ids = {} THEN 0
    ELSE LET i == CHOOSE x \in ids : TRUE
             row == pengajuan_pupuk[i]
         IN  (IF row.pupuk_id = p /\ row.status \in Committed /\ row.jumlah_disetujui # None
              THEN row.jumlah_disetujui[1] ELSE 0)
             + SumDisetujui(ids \ {i}, p)

\* C14: approvals never over-commit a stock pool: for every pupuk, after any sequence of
\* approve_persetujuan_pupuk calls with no other stock change, the sum of jumlah_disetujui
\* over its permohonan in status terverifikasi, dijadwalkan or dikirim does not exceed
\* that pupuk's jumlah_stok.
C14_ApprovalsNeverOvercommit ==
    \A p \in DOMAIN stok_pupuk :
        SumDisetujui(DOMAIN pengajuan_pupuk, p) <= stok_pupuk[p].jumlah_stok

(* ---------------- SpecAkun: the account handlers, one request at a time ---------------- *)
\* every bearer token a request may carry: none, an undecodable one, and signed tokens
\* (expired or not) naming a user id (0: no "sub" claim) that may or may not exist
AllTokens == {NoToken, GarbageToken} \cup {Jwt(u, e) : u \in 0..MaxUser + 1, e \in BOOLEAN}

\* the unexpired tokens POST /auth/login hands out
LoginTokens == {create_access_token(u) : u \in 1..MaxUser}

\* NIK form fields: two well-formed ones, one padded with blanks, one too short,
\* one that is the username of the super admin
NikInputs == {Repeat("1", NikLen), Repeat("3", NikLen),
              << " " >> \o Repeat("3", NikLen) \o << " " >>,
              Repeat("1", NikLen - 1), << "s", "u" >>}

UsernameInputs == {<< "o", "p", "s" >>, << "s", "u" >>, Repeat("3", NikLen)}

Register == \E nik \in NikInputs, password \in BOOLEAN, foto \in Foto :
    register_petani(nik, password, foto)

UpdateProfile == \E tok \in LoginTokens, nik \in NikInputs, foto \in Foto :
    update_profile(tok, nik, foto)

CreateUser == \E tok \in LoginTokens, username \in UsernameInputs,
                 role \in {"admin", "distributor", "petani"}, perusahaan \in BOOLEAN :
    create_user(tok, username, role, perusahaan)

EditUser == \E tok \in LoginTokens, u \in 1..MaxUser + 1 :
    edit_user(tok, u)

DeleteUser == \E tok \in LoginTokens, u \in 1..MaxUser + 1, foreign_keys \in BOOLEAN :
    delete_user(tok, u, foreign_keys)

NextAkun ==
    \/ Register
    \/ UpdateProfile
    \/ CreateUser
    \/ EditUser
    \/ DeleteUser

SpecAkun == InitDikirim /\ [][NextAkun]_vars

(* ---------------- SpecTerima: the workflow with two petani ---------------- *)
\* a second petani registers (with or without an accepted KTP upload)
RegisterTerima == \E foto \in Foto :
    register_petani(Repeat("3", NikLen), TRUE, foto)

AjukanTerima == \E tok \in LoginTokens, nama \in NamaPupuk :
    ajukan_permohonan(tok, nama, 1)

\* approvals of the pupuk asked for, with or without a delivery schedule
ApproveTerima == \E i \in 1..MaxPermohonan + 1, j \in 1..MaxJumlah, jadwal \in BOOLEAN :
    approve_persetujuan_pupuk(AdminToken, i, j, 0, jadwal, 0)

KonfirmasiTerima == \E tok \in LoginTokens, i \in 1..MaxPermohonan + 1 :
    konfirmasi_terima(tok, i)

NextTerima ==
    \/ RegisterTerima
    \/ AjukanTerima
    \/ ApproveTerima
    \/ UpdateJadwal
    \/ Verify
    \/ KonfirmasiTerima

SpecTerima == Init /\ [][NextTerima]_vars

\* C19: konfirmasi_terima changes state only when the permohonan belongs to the calling
\* petani and its status is 'dikirim': for a permohonan of another petani (or an unknown
\* id) it returns 404, for any other status 400, and in both cases the permohonan status
\* and every jumlah_stok are unchanged.
C19_KonfirmasiOnlyOwnDikirim ==
    /\ [](\A tok \in LoginTokens, i \in 1..MaxPermohonan + 1 :
            LET owned == i \in DOMAIN pengajuan_pupuk /\ pengajuan_pupuk[i].petani_id = tok.sub
            IN  (tok.sub \in DOMAIN users /\ users[tok.sub].role = "petani")
                  => /\ ~owned => /\ konfirmasi_terima_status(tok, i) = 404
                                  /\ ~ENABLED konfirmasi_terima(tok, i)
                     /\ (owned /\ pengajuan_pupuk[i].status # "dikirim")
                          => /\ konfirmasi_terima_status(tok, i) = 400
                             /\ ~ENABLED konfirmasi_terima(tok, i))
    /\ [][\A tok \in LoginTokens, i \in 1..MaxPermohonan + 1 :
             konfirmasi_terima(tok, i)
               => /\ pengajuan_pupuk[i].petani_id = tok.sub
                  /\ pengajuan_pupuk[i].status = "dikirim"]_vars

\* C19 witness: the second petani has confirmed its permohonan; the first petani, who
\* does not own it, is answered 404, and the owner, now that it is 'selesai', 400
C19_Witness ==
    /\ resp = [op |-> "konfirmasi_terima", status |-> 200]
    /\ pengajuan_pupuk[1].petani_id = 5 /\ pengajuan_pupuk[1].status = "selesai"
    /\ konfirmasi_terima_status(create_access_token(1), 1) = 404
    /\ konfirmasi_terima_status(create_access_token(5), 1) = 400
    /\ konfirmasi_terima_status(create_access_token(5), 2) = 404

(* ---------------- SpecAuth: guarded endpoints called with every kind of token ---------------- *)
LogoutAuth == \E tok \in AllTokens :
    logout(tok)

UpdateProfileAuth == \E tok \in AllTokens, foto \in Foto :
    update_profile(tok, Repeat("3", NikLen), foto)

TambahStockAuth == \E tok \in AllTokens :
    tambah_stock_pupuk(tok, 1, 1, "kg")

VerifyAuth == \E tok \in AllTokens :
    verify_penerima_pupuk(tok, 1)

DeleteUserAuth == \E tok \in AllTokens, u \in 1..MaxUser :
    delete_user(tok, u, FALSE)

NextAuth ==
    \/ LogoutAuth
    \/ UpdateProfileAuth
    \/ TambahStockAuth
    \/ VerifyAuth
    \/ DeleteUserAuth

SpecAuth == InitDikirim /\ [][NextAuth]_vars

(* ---------------- SpecRace: two kurangi_stock_pupuk requests, each in its own session ---------------- *)
KurangiBegin == \E s \in Sessions, p \in 1..MaxPupuk, jumlah \in Jumlah, satuan \in Satuan :
    kurangi_begin(s, AdminToken, p, jumlah, satuan)

KurangiFinish == \E s \in Sessions :
    kurangi_finish(s)

NextRace ==
    \/ KurangiBegin
    \/ KurangiFinish

SpecRace == InitDikirim /\ [][NextRace]_vars

\* sessions s and t have both finished a kurangi_stock_pupuk on the same pupuk, both read
\* the same row (so both read before either wrote), and each request alone passes the
\* checks on that row
BothReadBeforeEitherWrote(s, t) ==
    /\ s # t
    /\ sess[s].pc = "done" /\ sess[t].pc = "done"
    /\ sess[s].pupuk_id = sess[t].pupuk_id
    /\ sess[s].row # None /\ sess[s].row = sess[t].row
    /\ sess[s].satuan = sess[s].row[1].satuan /\ sess[t].satuan = sess[s].row[1].satuan
    /\ sess[s].jumlah <= sess[s].row[1].jumlah_stok
    /\ sess[t].jumlah <= sess[s].row[1].jumlah_stok

\* C5: the stock check of kurangi_stock_pupuk is not protected against other requests:
\* when two requests on the same pupuk run in separate sessions and both read
\* jumlah_stok before either writes, both pass the check jumlah_stok >= jumlah and both
\* decrements are applied (so jumlah_stok < 0 is reachable: C5_Witness).
C5_BothPassAndBothDecrementsApplied ==
    \A s \in Sessions, t \in Sessions :
        BothReadBeforeEitherWrote(s, t)
          => /\ sess[s].status = 200 /\ sess[t].status = 200
             /\ stok_pupuk[sess[s].pupuk_id].jumlah_stok =
                  sess[s].row[1].jumlah_stok - sess[s].jumlah - sess[t].jumlah
             /\ Len(riwayat_stock_pupuk) = 2

\* C5 witness: both requests read before either wrote, and the stock is negative
C5_Witness ==
    \E s \in Sessions, t \in Sessions :
        /\ BothReadBeforeEitherWrote(s, t)
        /\ stok_pupuk[sess[s].pupuk_id].jumlah_stok < 0

(* ---------------- authentication of the guarded endpoints ---------------- *)
\* the endpoints declared with Depends(require_role(R)): for a token, the requests it may
\* be sent with, each with the role R of its endpoint, the status it is answered with
\* and whether the handler takes a step
GuardedRequests(tok) ==
    {[roles |-> {"admin"}, status |-> create_stok_pupuk_status(tok, n, 1, "kg"),
      runs |-> ENABLED create_stok_pupuk(tok, n, 1, "kg")] : n \in NamaPupuk}
    \cup {[roles |-> {"admin"}, status |-> update_stok_pupuk_status(tok, p, Some(0)),
           runs |-> ENABLED update_stok_pupuk(tok, p, Some(0))] : p \in 1..MaxPupuk}
    \cup {[roles |-> {"admin"}, status |-> tambah_stock_pupuk_status(tok, p, 1, "kg"),
           runs |-> ENABLED tambah_stock_pupuk(tok, p, 1, "kg")] : p \in 1..MaxPupuk}
    \cup {[roles |-> {"admin"}, status |-> kurangi_stock_pupuk_status(tok, p, 1, "kg"),
           runs |-> ENABLED kurangi_stock_pupuk(tok, p, 1, "kg")] : p \in 1..MaxPupuk}
    \cup {[roles |-> {"admin"},
           status |-> approve_persetujuan_pupuk_status(tok, i, 1, 0, jadwal, 0),
           runs |-> ENABLED approve_persetujuan_pupuk(tok, i, 1, 0, jadwal, 0)] :
             i \in 1..MaxPermohonan, jadwal \in BOOLEAN}
    \cup {[roles |-> {"admin"}, status |-> reject_persetujuan_pupuk_status(tok, i, TRUE),
           runs |-> ENABLED reject_persetujuan_pupuk(tok, i, TRUE)] : i \in 1..MaxPermohonan}
    \cup {[roles |-> {"petani"}, status |-> ajukan_permohonan_status(tok, n, 1),
           runs |-> ENABLED ajukan_permohonan(tok, n, 1)] : n \in NamaPupuk}
    \cup {[roles |-> {"petani"}, status |-> konfirmasi_terima_status(tok, i),
           runs |-> ENABLED konfirmasi_terima(tok, i)] : i \in 1..MaxPermohonan}
    \cup {[roles |-> {"petani"}, status |-> update_profile_status(tok, nik, "ok"),
           runs |-> ENABLED update_profile(tok, nik, "ok")] : nik \in NikInputs}
    \cup {[roles |-> {"distributor"}, status |-> update_status_jadwal_status(tok, j, st),
           runs |-> ENABLED update_status_jadwal(tok, j, st)] :
             j \in 1..MaxPermohonan, st \in {"mulai", "Selesai"}}
    \cup {[roles |-> {"distributor"}, status |-> verify_penerima_pupuk_status(tok, i),
           runs |-> ENABLED verify_penerima_pupuk(tok, i)] : i \in 1..MaxPermohonan}
    \cup {[roles |-> {"super_admin"}, status |-> create_user_status(tok, u, "admin", FALSE),
           runs |-> ENABLED create_user(tok, u, "admin", FALSE)] : u \in UsernameInputs}
    \cup {[roles |-> {"super_admin"}, status |-> edit_user_status(tok, u),
           runs |-> ENABLED edit_user(tok, u)] : u \in 1..MaxUser}
    \cup {[roles |-> {"super_admin"}, status |-> delete_user_status(tok, u, fk),
           runs |-> ENABLED delete_user(tok, u, fk)] : u \in 1..MaxUser, fk \in BOOLEAN}

\* no token, an undecodable or expired token, or a token whose user does not exist
Unauthenticated(tok) ==
    \/ tok = NoToken
    \/ tok = GarbageToken
    \/ tok.expired
    \/ tok.sub \notin DOMAIN users

\* C6: for every endpoint guarded by require_role(R), a request with no token, an
\* undecodable or expired token, or a token whose user does not exist is answered 401; a
\* request with a valid token of a user whose role is not R is answered 403; in both
\* cases the handler does not run, so no database state changes.
C6_GuardedEndpointsRejectBadTokens ==
    \A tok \in AllTokens : \A r \in GuardedRequests(tok) :
        /\ Unauthenticated(tok) => r.status = 401 /\ ~r.runs
        /\ (~Unauthenticated(tok) /\ users[tok.sub].role \notin r.roles)
             => r.status = 403 /\ ~r.runs

\* C6 witness: the petani's account has been deleted, so that the token it logged in
\* with is refused with 401, and the distributor's token is refused with 403 by an
\* admin endpoint
C6_Witness ==
    /\ resp = [op |-> "delete_user", status |-> 200]
    /\ 1 \notin DOMAIN users
    /\ update_profile_status(create_access_token(1), Repeat("3", NikLen), "ok") = 401
    /\ 3 \in DOMAIN users
    /\ tambah_stock_pupuk_status(DistributorToken, 1, 1, "kg") = 403

\* C9: logout invalidates the token: after POST /auth/logout has succeeded for a bearer
\* token, every later request that carries the same token to a protected endpoint is
\* rejected with 401.
C9_LogoutInvalidatesToken ==
    \A tok \in logged_out : \A r \in GuardedRequests(tok) : r.status = 401

C8_UsernamesAndNiksUnique ==
    /\ \A u \in DOMAIN users, v \in DOMAIN users :
         users[u].username = users[v].username => u = v
    /\ \A u \in DOMAIN profile_petani, v \in DOMAIN profile_petani :
         profile_petani[u].nik = profile_petani[v].nik => u = v

\* C8 witness: two petani have a profile and one of them has just been refused the NIK
\* of the other by update_profile
C8_Witness ==
    /\ resp = [op |-> "update_profile", status |-> 500]
    /\ Cardinality(DOMAIN profile_petani) >= 2
    /\ Cardinality(DOMAIN users) >= 5

(* ---------------- SpecSesi: approve and reject requests, each in its own session ---------------- *)
ApproveBegin == \E s \in Sessions, i \in 1..MaxPermohonan + 1, j \in 1..MaxJumlah,
                   p \in {0, MaxPupuk}, jadwal \in BOOLEAN :
    approve_begin(s, AdminToken, i, j, p, jadwal, 0)

ApproveFinish == \E s \in Sessions, db_error \in BOOLEAN :
    approve_finish(s, db_error)

RejectBegin == \E s \in Sessions, i \in 1..MaxPermohonan + 1 :
    reject_begin(s, AdminToken, i, TRUE)

RejectFinish == \E s \in Sessions :
    reject_finish(s)

NextSesi ==
    \/ ApproveBegin
    \/ ApproveFinish
    \/ RejectBegin
    \/ RejectFinish

SpecSesi == InitPending /\ [][NextSesi]_vars

\* C24: a handler that runs inside get_cursor(commit=True) is all-or-nothing: when
\* approve_persetujuan_pupuk or reject_persetujuan_pupuk raises (an HTTPException, or a
\* database error in the jadwal_distribusi_pupuk INSERT after the UPDATE of the
\* permohonan), the request leaves every table as it was; when approve_persetujuan_pupuk
\* ends normally, both the status update and, if a schedule was given, the new
\* jadwal_distribusi_pupuk row are there.
C24_HandlerIsAllOrNothing ==
    [][\A s \in Sessions :
          /\ \A db_error \in BOOLEAN :
               approve_finish(s, db_error)
                 => IF sess'[s].status # 200
                    THEN db' = db
                    ELSE LET i == sess[s].permohonan_id
                         IN  /\ pengajuan_pupuk'[i].jumlah_disetujui = Some(sess[s].jumlah)
                             /\ pengajuan_pupuk'[i].status =
                                  approve_status_target(sess[s].jadwal, sess[s].jadwal_id)
                             /\ sess[s].jadwal
                                  <=> \E j \in DOMAIN jadwal_distribusi_pupuk'
                                               \ DOMAIN jadwal_distribusi_pupuk :
                                        jadwal_distribusi_pupuk'[j].permohonan_id = i
          /\ (reject_finish(s) /\ sess'[s].status # 200) => db' = db]_vars

\* C24 witness: an approval with a schedule has passed its checks and failed in the INSERT
\* of the jadwal (500): the permohonan is still 'pending' with no jumlah_disetujui and
\* there is no jadwal_distribusi_pupuk row
C24_Witness ==
    \E s \in Sessions :
        /\ sess[s].pc = "done"
        /\ sess[s].op = "approve_persetujuan_pupuk"
        /\ sess[s].jadwal
        /\ sess[s].status = 500
        /\ resp = [op |-> "approve_persetujuan_pupuk", status |-> 500]
        /\ pengajuan_pupuk[sess[s].permohonan_id].status = "pending"
        /\ pengajuan_pupuk[sess[s].permohonan_id].jumlah_disetujui = None
        /\ jadwal_distribusi_pupuk = << >>

\* sessions s and t have both finished a request on the same permohonan, which both read
\* while it was 'pending'
BothReadPending(s, t) ==
    /\ s # t
    /\ sess[s].pc = "done" /\ sess[t].pc = "done"
    /\ sess[s].permohonan_id = sess[t].permohonan_id
    /\ sess[s].row # None /\ sess[s].row[1].status = "pending"
    /\ sess[t].row # None /\ sess[t].row[1].status = "pending"

\* C25: when two requests that process the same pending permohonan (two
\* approve_persetujuan_pupuk, or one approve and one reject_persetujuan_pupuk) interleave
\* in separate sessions, at most one of them takes effect: at most one is answered 200 and
\* the permohonan has at most one jadwal_distribusi_pupuk row.
C25_AtMostOneRequestTakesEffect ==
    \A s \in Sessions, t \in Sessions :
        BothReadPending(s, t)
          => /\ ~(sess[s].status = 200 /\ sess[t].status = 200)
             /\ Cardinality({j \in DOMAIN jadwal_distribusi_pupuk :
                               jadwal_distribusi_pupuk[j].permohonan_id
                                 = sess[s].permohonan_id}) <= 1

\* C23: a register_petani request that ends in an error response (a missing, empty or
\* unsupported foto_ktp upload, or a database error while the profile is created) leaves
\* users and profile_petani unchanged, so that the same NIK can be registered successfully
\* afterwards and every petani user made by register_petani has a profile_petani row.
C23_FailedRegisterChangesNothing ==
    [][\A nik \in NikInputs, password \in BOOLEAN, foto \in Foto :
          (register_petani(nik, password, foto) /\ resp'.status # 200)
            => /\ users' = users
               /\ profile_petani' = profile_petani
               /\ \A u \in DOMAIN users' : users'[u].username # strip(nik)]_vars

\* C26: delete_user on an existing user succeeds and deletes the user and all associated
\* profile data: afterwards there is no users row and no profile row (petani, distributor,
\* admin, superadmin) with that user_id, and every remaining pengajuan_pupuk and
\* verifikasi_penerima_pupuk row still references an existing petani/user; on an unknown
\* id it returns 404 and changes nothing.
C26_DeleteUserRemovesUserAndProfiles ==
    /\ [](\A u \in 1..MaxUser + 1, foreign_keys \in BOOLEAN :
            u \notin DOMAIN users
              => /\ delete_user_status(SuperadminToken, u, foreign_keys) \in {401, 404}
                 /\ ~ENABLED delete_user(SuperadminToken, u, foreign_keys))
    /\ [][\A tok \in LoginTokens, u \in DOMAIN users, foreign_keys \in BOOLEAN :
             delete_user(tok, u, foreign_keys)
               => /\ resp'.status = 200
                  /\ u \notin DOMAIN users'
                  /\ u \notin DOMAIN profile_petani'
                  /\ \A r \in profile_lain' : r.user_id # u
                  /\ \A i \in DOMAIN pengajuan_pupuk' :
                       /\ pengajuan_pupuk'[i].petani_id \in DOMAIN profile_petani'
                       /\ pengajuan_pupuk'[i].petani_id \in DOMAIN users'
                  /\ \A v \in verifikasi_penerima_pupuk' :
                       v.distributor_id \in DOMAIN users']_vars

====
